---- MODULE Spec2Model ----
(***************************************************************************)
(* Payment lifecycle of quangnguyen-98/payment-test: the payments table,   *)
(* the initiation flow (PaymentService.init_payment behind POST            *)
(* /payments/init) and the reconciliation poller (PaymentPoller,           *)
(* run_poller).                                                            *)
(*                                                                         *)
(* Time is in seconds; the clock advances TickSeconds at a time.  A step   *)
(* of a handler is the code between two awaits.  The database session      *)
(* follows SQLAlchemy 2.0: a transaction begins with the first statement   *)
(* and ends with commit or rollback; rollback with a transaction in        *)
(* progress expires every object the session holds, whatever               *)
(* expire_on_commit says, and reading an attribute of an expired object    *)
(* through an AsyncSession raises (MissingGreenlet) instead of loading it. *)
(***************************************************************************)
EXTENDS Integers, Sequences, FiniteSets, TLC

VARIABLES now, db, poller, pollers, rq, generated, dbFaulty, app

vars == <<now, db, poller, pollers, rq, generated, dbFaulty, app>>

(* ------------------------------ bounds -------------------------------- *)

MaxRows == 2
TickSeconds == 300
\* the largest backlog of due payments a store starts with
MaxExpired == 11
\* the active payments the batch specification starts with, one more than a batch
MaxActive == 6
\* the seconds the database server's clock can be ahead of the poller's
MaxSkew == 2

(* -------------------------- program constants ------------------------- *)

batch_size == 5
expired_limit == 10
max_pending_time == 600

PENDING == "PENDING"
COMPLETED == "COMPLETED"
FAILED == "FAILED"
CANCELLED == "CANCELLED"
TIMEOUT == "TIMEOUT"

PaymentStatus == {PENDING, COMPLETED, FAILED, CANCELLED, TIMEOUT}

Terminal == {COMPLETED, FAILED, CANCELLED, TIMEOUT}

(* ------------------------------ domains ------------------------------- *)

Null == "null"

PaymentIds == {"txn-9"}

PollerIds == {1, 2}

\* the request handlers that can run at the same time
Reqs == {1, 2}

\* the request ids callers supply and uuid4 draws from
Keys == {1, 2}

\* terminal ids callers send; TerminalRows are the ones the terminals table holds
TerminalIds == {1, 2}

TerminalRows == {1}

\* the expiry the PSP quotes for a QR code: one, two or three ticks after 0
ExpiryDates == {k * TickSeconds : k \in 1 .. 3}

\* amounts in hundredths (Numeric(12, 2)): 1000.00 and 1000.50
Amounts == {100000, 100050}

\* the deeplinks createQR answers with (never empty)
Deeplinks == {"paypay://a", "paypay://b"}

\* the status strings getPaymentDetails can carry; "SETTLED" stands for any
\* string the code does not know, Null for a response without a status
PspStatuses == {"CREATED", "AUTHORIZED", "COMPLETED", "FAILED", "EXPIRED",
                "CANCELED", "SETTLED", Null}

\* what a getPaymentDetails call can end with: the SDK raising, a result
\* code other than SUCCESS, or SUCCESS with a data envelope ("raise" is also
\* a SUCCESS whose data is null: data.get raises and the handler takes over)
Responses ==
    {[kind |-> "raise", status |-> Null, paymentId |-> Null],
     [kind |-> "error_code", status |-> Null, paymentId |-> Null]}
    \cup {[kind |-> "SUCCESS", status |-> s, paymentId |-> t] :
            s \in PspStatuses, t \in PaymentIds \cup {Null}}

NoResponse == [kind |-> "none", status |-> Null, paymentId |-> Null]

\* the application after a lifespan start-up that found the database
Serving == [pc |-> "serving", healthy |-> TRUE]

\* a statement or commit succeeds, or fails when the database is faulty
DbOutcomes == IF dbFaulty THEN {TRUE, FALSE} ELSE {TRUE}

(* ------------------------------ helpers ------------------------------- *)

Range(s) == {s[i] : i \in DOMAIN s}

Min(a, b) == IF a < b THEN a ELSE b

\* the results of SELECT ... LIMIT n without ORDER BY over the rows in cand
LimitSets(cand, n) ==
    {sel \in SUBSET cand : Cardinality(sel) = Min(n, Cardinality(cand))}

Injective(s) == \A i, j \in DOMAIN s : i # j => s[i] # s[j]

(* --------------------------- the poller ------------------------------- *)

NewSession ==
    [pc |-> "sleep", txn |-> FALSE, expired |-> FALSE,
     expired_payments |-> {}, now |-> 0,
     payments |-> <<>>, i |-> 0, called |-> {}, raised |-> {},
     retry |-> {}, resp |-> NoResponse, select_failed |-> FALSE]

\* an expired selection that takes expires_at < now
ExpiredSelectionStrict(rows, t) ==
    {r \in DOMAIN rows : rows[r].status = PENDING /\ rows[r].expires_at < t}

\* the expired selection without its status filter
ExpiredSelectionAnyStatus(rows, t) ==
    {r \in DOMAIN rows : rows[r].expires_at <= t}

\* PaymentPoller.handle_expired_payments: the expired selection
ExpiredSelection(rows, t) ==
    {r \in DOMAIN rows : rows[r].status = PENDING /\ rows[r].expires_at <= t}

\* PaymentPoller.get_pending_payments: the WHERE clause
\* an active selection without the max_pending_time cutoff
IsActiveAnyAge(row, t) ==
    /\ row.status = PENDING
    /\ row.expires_at > t

\* an active selection whose cutoff takes the payment created exactly
\* max_pending_time ago
IsActiveInclusiveCutoff(row, t) ==
    /\ row.status = PENDING
    /\ row.created_at >= t - max_pending_time
    /\ row.expires_at > t

IsActive(row, t) ==
    /\ row.status = PENDING
    /\ row.created_at > t - max_pending_time
    /\ row.expires_at > t

ActiveSelection(rows, t) == {r \in DOMAIN rows : IsActive(rows[r], t)}

\* ORDER BY created_at DESC LIMIT limit: the sequences the query can return
PendingBatches(rows, t, limit) ==
    LET cand == ActiveSelection(rows, t)
        n == Min(limit, Cardinality(cand))
    IN {s \in [1 .. n -> cand] :
          /\ Injective(s)
          /\ \A i, j \in 1 .. n : i < j => rows[s[i]].created_at >= rows[s[j]].created_at
          /\ \A r \in cand \ Range(s) :
                \A i \in 1 .. n : rows[s[i]].created_at >= rows[r].created_at}

\* Session.rollback: with a transaction in progress every object is expired
Rollback(s) == [s EXCEPT !.expired = s.expired \/ s.txn, !.txn = FALSE]

\* a mapping that files the PSP's EXPIRED under FAILED
StatusForExpiredAsFailed(paypay_status) ==
    CASE paypay_status = "COMPLETED" -> COMPLETED
      [] paypay_status = "FAILED" -> FAILED
      [] paypay_status = "EXPIRED" -> FAILED
      [] paypay_status = "CANCELED" -> CANCELLED
      [] OTHER -> PENDING

\* check_payment_status, lines 86-116: the transition for a PayPay status
StatusFor(paypay_status) ==
    CASE paypay_status = "COMPLETED" -> COMPLETED
      [] paypay_status = "FAILED" -> FAILED
      [] paypay_status = "EXPIRED" -> TIMEOUT
      [] paypay_status = "CANCELED" -> CANCELLED
      [] OTHER -> PENDING

status_updated(paypay_status) ==
    paypay_status \in {"COMPLETED", "FAILED", "EXPIRED", "CANCELED"}

\* a transition that leaves txn_id for a later write
UpdatedPaymentStatusOnly(row, data, t) ==
    [row EXCEPT !.status = StatusFor(data.status), !.updated_at = t]

\* a transition that also drops the QR deeplink of a payment that is over
UpdatedPaymentClearsDeeplink(row, data, t) ==
    [row EXCEPT !.status = StatusFor(data.status),
                !.txn_id = IF data.status = "COMPLETED" THEN data.paymentId ELSE @,
                !.deeplink = Null, !.updated_at = t]

\* a transition that copies the PSP's payment id whatever the status
UpdatedPaymentAnyTxn(row, data, t) ==
    [row EXCEPT !.status = StatusFor(data.status), !.txn_id = data.paymentId,
                !.updated_at = t]

\* the row as check_payment_status leaves it in memory before the commit
UpdatedPayment(row, data, t) ==
    [row EXCEPT !.status = StatusFor(data.status),
                !.txn_id = IF data.status = "COMPLETED" THEN data.paymentId ELSE @,
                !.updated_at = t]

\* a poller that stamps updated_at on every attempt, failed ones included
ReconciledStamped(row, resp, t) ==
    IF resp.kind = "SUCCESS" /\ status_updated(resp.status)
    THEN UpdatedPayment(row, resp, t)
    ELSE [row EXCEPT !.updated_at = t]

\* check_payment_status, lines 73-123: the row it commits for a response; a
\* result code other than SUCCESS returns before anything is assigned
Reconciled(row, resp, t) ==
    IF resp.kind = "SUCCESS" /\ status_updated(resp.status)
    THEN UpdatedPayment(row, resp, t)
    ELSE row

\* a for loop that calls the PSP for the next payment at once
NextPaymentWithoutDelay(s) ==
    IF s.i < Len(s.payments)
    THEN [s EXCEPT !.i = s.i + 1, !.pc = "check", !.resp = NoResponse]
    ELSE [s EXCEPT !.pc = "finish", !.resp = NoResponse]

\* a for loop that calls the PSP again, at once, for a payment whose call
\* raised
NextPaymentRetryInPlace(s) ==
    IF s.payments[s.i] \in s.raised
    THEN [s EXCEPT !.pc = "check", !.resp = NoResponse]
    ELSE IF s.i < Len(s.payments)
    THEN [s EXCEPT !.i = s.i + 1, !.pc = "delay", !.resp = NoResponse]
    ELSE [s EXCEPT !.pc = "finish", !.resp = NoResponse]

\* the for loop of process_batch moves to the next payment, or ends
NextPayment(s) ==
    IF s.i < Len(s.payments)
    THEN [s EXCEPT !.i = s.i + 1, !.pc = "delay", !.resp = NoResponse]
    ELSE [s EXCEPT !.pc = "finish", !.resp = NoResponse]

\* a process_batch that goes to the active batch without the expiry pass
run_poller_without_expiry(p) ==
    /\ p \in pollers
    /\ poller[p].pc = "sleep"
    /\ poller' = [poller EXCEPT ![p] = [@ EXCEPT !.pc = "select"]]
    /\ UNCHANGED <<now, db, pollers, rq, generated, dbFaulty, app>>

\* run_poller: the while loop opens a session and calls process_batch
run_poller(p) ==
    /\ p \in pollers
    /\ poller[p].pc = "sleep"
    /\ poller' = [poller EXCEPT ![p] = [@ EXCEPT !.pc = "expire"]]
    /\ UNCHANGED <<now, db, pollers, rq, generated, dbFaulty, app>>

\* handle_expired_payments, lines 166-175: now is read, then the SELECT
handle_expired_payments(p) ==
    /\ p \in pollers
    /\ poller[p].pc = "expire"
    /\ \E ok \in DbOutcomes :
         IF ok
         THEN \E sel \in LimitSets(ExpiredSelection(db, now), expired_limit) :
                poller' = [poller EXCEPT ![p] =
                    [@ EXCEPT !.txn = TRUE,
                              !.now = IF sel = {} THEN 0 ELSE now,
                              !.expired_payments = sel,
                              !.pc = IF sel = {} THEN "select" ELSE "mark"]]
         ELSE poller' = [poller EXCEPT ![p] =
                    [Rollback(@) EXCEPT !.pc = "select"]]
    /\ UNCHANGED <<now, db, pollers, rq, generated, dbFaulty, app>>

\* an expiry pass that commits row by row and stops at the first failure
mark_timeout_each(p) ==
    /\ p \in pollers
    /\ poller[p].pc = "mark"
    /\ \E done \in SUBSET poller[p].expired_payments :
         /\ done = poller[p].expired_payments \/ dbFaulty
         /\ db' = [r \in DOMAIN db |->
                     IF r \in done
                     THEN [db[r] EXCEPT !.status = TIMEOUT,
                                        !.updated_at = poller[p].now]
                     ELSE db[r]]
         /\ poller' = [poller EXCEPT ![p] =
               [@ EXCEPT !.txn = FALSE, !.pc = "select",
                         !.retry = @ \ done,
                         !.expired_payments = {}, !.now = 0]]
    /\ UNCHANGED <<now, pollers, rq, generated, dbFaulty, app>>

\* handle_expired_payments, lines 177-192: mark every selected row, commit
mark_timeout(p) ==
    /\ p \in pollers
    /\ poller[p].pc = "mark"
    /\ \E ok \in DbOutcomes :
         IF ok
         THEN /\ db' = [r \in DOMAIN db |->
                          IF r \in poller[p].expired_payments
                          THEN [db[r] EXCEPT !.status = TIMEOUT,
                                             !.updated_at = poller[p].now]
                          ELSE db[r]]
              /\ poller' = [poller EXCEPT ![p] =
                    [@ EXCEPT !.txn = FALSE, !.pc = "select",
                              !.retry = @ \ poller[p].expired_payments,
                              !.expired_payments = {}, !.now = 0]]
         ELSE /\ db' = db
              /\ poller' = [poller EXCEPT ![p] =
                    [Rollback(@) EXCEPT !.pc = "select",
                                        !.expired_payments = {}, !.now = 0]]
    /\ UNCHANGED <<now, pollers, rq, generated, dbFaulty, app>>

\* get_pending_payments called from process_batch with limit=batch_size;
\* when the SELECT raises, the handler of line 61 returns the empty list
\* (select_failed remembers it until the cycle is over)
get_pending_payments(p) ==
    /\ p \in pollers
    /\ poller[p].pc = "select"
    /\ \E ok \in DbOutcomes :
         IF ok
         THEN \E b \in PendingBatches(db, now, batch_size) :
                poller' = [poller EXCEPT ![p] =
                    [@ EXCEPT !.txn = TRUE, !.expired = FALSE,
                              !.payments = b,
                              !.i = IF b = <<>> THEN 0 ELSE 1,
                              !.pc = IF b = <<>> THEN "finish" ELSE "check"]]
         ELSE poller' = [poller EXCEPT ![p] =
                    [@ EXCEPT !.pc = "finish", !.select_failed = TRUE]]
    /\ UNCHANGED <<now, db, pollers, rq, generated, dbFaulty, app>>

\* process_batch, lines 149-150: asyncio.sleep(rate_limit_delay) when i > 0
rate_limit_delay(p) ==
    /\ p \in pollers
    /\ poller[p].pc = "delay"
    /\ poller' = [poller EXCEPT ![p] = [@ EXCEPT !.pc = "check"]]
    /\ UNCHANGED <<now, db, pollers, rq, generated, dbFaulty, app>>

\* a check_payment_status that stamps the row before it calls the PSP
get_payment_details_stamped(p) ==
    /\ p \in pollers
    /\ poller[p].pc = "check"
    /\ LET s == poller[p] IN
         IF s.expired
         THEN /\ poller' = [poller EXCEPT ![p] = [s EXCEPT !.pc = "finish"]]
              /\ db' = db
         ELSE /\ poller' = [poller EXCEPT ![p] =
                  [s EXCEPT !.called = @ \cup {s.payments[s.i]}, !.pc = "wait"]]
              /\ db' = [db EXCEPT ![s.payments[s.i]].updated_at = now]
    /\ UNCHANGED <<now, pollers, rq, generated, dbFaulty, app>>

\* check_payment_status, lines 67-71: payment.request_id is read and the
\* PSP is called.  On an expired object the read raises, again in the
\* handler of line 126 and in the one of line 155, which ends the for loop
\* in the handler of process_batch, line 160.
get_payment_details(p) ==
    /\ p \in pollers
    /\ poller[p].pc = "check"
    /\ LET s == poller[p] IN
         IF s.expired
         THEN poller' = [poller EXCEPT ![p] = [s EXCEPT !.pc = "finish"]]
         ELSE poller' = [poller EXCEPT ![p] =
                  [s EXCEPT !.called = @ \cup {s.payments[s.i]}, !.pc = "wait"]]
    /\ UNCHANGED <<now, db, pollers, rq, generated, dbFaulty, app>>

\* PayPayService.get_payment_details returns or raises
psp_response(p) ==
    /\ p \in pollers
    /\ poller[p].pc = "wait"
    /\ \E r \in Responses :
         poller' = [poller EXCEPT ![p] = [@ EXCEPT !.resp = r, !.pc = "apply"]]
    /\ UNCHANGED <<now, db, pollers, rq, generated, dbFaulty, app>>

\* a check_payment_status that reads the row again before it writes and
\* leaves a payment that is no longer PENDING as it is
check_payment_status_if_pending(p) ==
    /\ p \in pollers
    /\ poller[p].pc = "apply"
    /\ LET s == poller[p]
           r == s.payments[s.i]
       IN IF s.resp.kind = "raise"
          THEN /\ db' = db
               /\ poller' = [poller EXCEPT ![p] =
                      NextPayment([Rollback(s) EXCEPT !.raised = @ \cup {r},
                                                      !.retry = @ \cup {r}])]
          ELSE IF db[r].status # PENDING \/ Reconciled(db[r], s.resp, now) = db[r]
          THEN /\ db' = db
               /\ poller' = [poller EXCEPT ![p] =
                      NextPayment([s EXCEPT !.retry =
                          IF s.resp.kind = "SUCCESS" THEN @ ELSE @ \cup {r}])]
          ELSE \E ok \in DbOutcomes :
                 IF ok
                 THEN /\ db' = [db EXCEPT ![r] = Reconciled(db[r], s.resp, now)]
                      /\ poller' = [poller EXCEPT ![p] =
                             NextPayment([s EXCEPT !.txn = FALSE,
                                                   !.retry = @ \ {r}])]
                 ELSE /\ db' = db
                      /\ poller' = [poller EXCEPT ![p] =
                             NextPayment([Rollback([s EXCEPT !.txn = TRUE])
                                             EXCEPT !.raised = @ \cup {r}])]
    /\ UNCHANGED <<now, pollers, rq, generated, dbFaulty, app>>

\* check_payment_status, lines 73-128: what it does with the response.  The
\* flush of a commit begins a transaction when none is in progress, so the
\* rollback after a failed commit always finds one.  retry remembers the rows
\* whose PSP call failed and that nothing has moved out of PENDING since.
check_payment_status(p) ==
    /\ p \in pollers
    /\ poller[p].pc = "apply"
    /\ LET s == poller[p]
           r == s.payments[s.i]
       IN IF s.resp.kind = "raise"
          THEN /\ db' = db
               /\ poller' = [poller EXCEPT ![p] =
                      NextPayment([Rollback(s) EXCEPT !.raised = @ \cup {r},
                                                      !.retry = @ \cup {r}])]
          ELSE IF Reconciled(db[r], s.resp, now) = db[r]
          THEN /\ db' = db
               /\ poller' = [poller EXCEPT ![p] =
                      NextPayment([s EXCEPT !.retry =
                          IF s.resp.kind = "SUCCESS" THEN @ ELSE @ \cup {r}])]
          ELSE \E ok \in DbOutcomes :
                 IF ok
                 THEN /\ db' = [db EXCEPT ![r] = Reconciled(db[r], s.resp, now)]
                      /\ poller' = [poller EXCEPT ![p] =
                             NextPayment([s EXCEPT !.txn = FALSE,
                                                   !.retry = @ \ {r}])]
                 ELSE /\ db' = db
                      /\ poller' = [poller EXCEPT ![p] =
                             NextPayment([Rollback([s EXCEPT !.txn = TRUE])
                                             EXCEPT !.raised = @ \cup {r}])]
    /\ UNCHANGED <<now, pollers, rq, generated, dbFaulty, app>>

\* run_poller, lines 264-275: process_batch has returned (it catches what
\* its statements raise, line 160), the session closes and
\* asyncio.sleep(check_interval) follows; when get_stats or the close of the
\* session raises, the handler of line 277 takes over
check_interval(p) ==
    /\ p \in pollers
    /\ poller[p].pc = "finish"
    /\ \E ok \in DbOutcomes :
         poller' = [poller EXCEPT ![p] =
             [NewSession EXCEPT !.retry = poller[p].retry,
                                !.pc = IF ok THEN "sleep" ELSE "backoff"]]
    /\ UNCHANGED <<now, db, pollers, rq, generated, dbFaulty, app>>

\* a loop whose handler lets the exception end run_poller
backoff_stop(p) ==
    /\ p \in pollers
    /\ poller[p].pc = "backoff"
    /\ poller' = [poller EXCEPT ![p] = [@ EXCEPT !.pc = "stopped"]]
    /\ UNCHANGED <<now, db, pollers, rq, generated, dbFaulty, app>>

\* run_poller, lines 277-279: the error is logged, asyncio.sleep(30), and the
\* while loop goes on
backoff(p) ==
    /\ p \in pollers
    /\ poller[p].pc = "backoff"
    /\ poller' = [poller EXCEPT ![p] = [@ EXCEPT !.pc = "sleep"]]
    /\ UNCHANGED <<now, db, pollers, rq, generated, dbFaulty, app>>

\* the clock, followed until the pending window of the rows created at 0 is over
Tick ==
    /\ now < max_pending_time
    /\ now' = now + TickSeconds
    /\ UNCHANGED <<db, poller, pollers, rq, generated, dbFaulty, app>>

(* ----------------------------- the store ------------------------------ *)

Row(k, st, exp, cr, am, term, dl) ==
    [request_id |-> k, status |-> st, txn_id |-> Null, expires_at |-> exp,
     created_at |-> cr, updated_at |-> cr, amount |-> am, terminal_id |-> term,
     deeplink |-> dl]

\* a request_id column without unique=True
NoUniqueConstraint(rows, k) == FALSE

\* Payment.request_id: unique=True, the constraint an INSERT is checked against
UniqueViolation(rows, k) == \E i \in DOMAIN rows : rows[i].request_id = k

\* an existence check that finds nothing
get_by_request_id_none(rows, k) == {}

\* PaymentRepository.get_by_request_id
get_by_request_id(rows, k) == {i \in DOMAIN rows : rows[i].request_id = k}

(* ------------------------- the initiation flow ------------------------ *)

\* the bodies of POST /payments/init: amount is a decimal of scale 2, held
\* here in hundredths
InitPaymentRequest ==
    [request_id : Keys, terminal_id : TerminalIds, amount : Amounts]

\* PaymentStatusResponse before it is filled in
NoPayload ==
    [request_id |-> Null, qr_string |-> Null, status |-> Null, amount |-> 0,
     expires_at |-> 0, txn_id |-> Null]

\* the data envelope of a createQR response before there is one
NoQrData == [deeplink |-> Null, expiryDate |-> 0]

\* a request handler: op is the route, qr the outcome of the createQR call
\* it made ("none" while it made none)
NoRequest ==
    [pc |-> "idle", op |-> "none", request_id |-> Null, terminal_id |-> Null,
     amount |-> 0, qr |-> "none", qr_data |-> NoQrData, created_at |-> 0,
     used |-> FALSE, violated |-> FALSE, result |-> "none",
     response |-> NoPayload]

\* the handler is done: what the caller gets
Done(q, result) ==
    [q EXCEPT !.pc = "done", !.created_at = 0, !.result = result,
              !.response = IF result \in {"Created", "Status"} THEN @ ELSE NoPayload]

\* the rows flushed by a handler and not yet committed
Flushed == {r \in Reqs : rq[r].pc = "commit"}

\* what createQR can end with: the SDK raising, a result code (UNAUTHORIZED,
\* another one that is not SUCCESS), SUCCESS without a data envelope, SUCCESS
\* with data that PayPayQRData rejects, SUCCESS with data.  A result code is
\* one of the strings PayPay documents, never the empty string.
QrOutcomes == {"raise", "UNAUTHORIZED", "error_code", "no_data", "bad_data", "SUCCESS"}

\* _generate_real_qr_code: what it raises for a createQR outcome
generate_real_qr_code(outcome) ==
    CASE outcome = "UNAUTHORIZED" -> "BadRequest"
      [] outcome = "error_code" -> "BadRequest"
      [] outcome = "no_data" -> "UpstreamError"
      [] outcome = "bad_data" -> "UpstreamError"
      [] outcome = "raise" -> "UpstreamError"
      [] OTHER -> "none"

\* a handler that wraps whatever was raised in upstream_error
QrErrorWrapped(outcome) ==
    IF generate_real_qr_code(outcome) = "none" THEN "none" ELSE "UpstreamError"

\* PayPayService.generate_qr_code, lines 61-69: an HTTPException is raised
\* again as it is, anything else becomes upstream_error
QrError(outcome) ==
    LET e == generate_real_qr_code(outcome)
    IN IF e \in {"none", "BadRequest", "UpstreamError"} THEN e ELSE "UpstreamError"

\* the route init_payment, lines 103-113: what an exception of the service
\* surfaces as
RouteError(exc) ==
    IF exc \in {"NotFound", "Conflict", "BadRequest", "UpstreamError"}
    THEN exc
    ELSE "InternalError"

\* a status route without its except ValueError clause
StatusRouteErrorUnmapped(exc) == "InternalError"

\* the route get_payment_by_request_id, lines 82-86: ValueError becomes 404,
\* anything else is not caught
StatusRouteError(exc) ==
    IF exc = "ValueError" THEN "NotFound" ELSE "InternalError"

\* int(payment.amount): the fraction of a Decimal is dropped
IntAmount(a) == (a \div 100) * 100

\* a row built with the column defaults only
PaymentModelDefaults(q, t) ==
    Row(q.request_id, PENDING, 0, t, q.amount, q.terminal_id, Null)

\* init_payment, lines 215-234: the row built from the request and from the
\* createQR response; expiryDate is epoch seconds, as expires_at is here
PaymentModel(q, t) ==
    Row(q.request_id, PENDING, q.qr_data.expiryDate, t, q.amount,
        q.terminal_id, q.qr_data.deeplink)

\* init_payment, lines 241-249: the response, built from the request and
\* from the createQR response; txn_id is left at its default
InitPaymentResponse(q) ==
    [request_id |-> q.request_id, qr_string |-> q.qr_data.deeplink,
     status |-> PENDING, amount |-> q.amount,
     expires_at |-> q.qr_data.expiryDate, txn_id |-> Null]

\* PaymentService.get_payment_status, lines 256-264 (the second definition
\* of the class, the one in force).  Every row has its expires_at, so the
\* clock t that stands in for a missing one is not used.
PaymentStatusResponse(row, t) ==
    [request_id |-> row.request_id,
     qr_string |-> IF row.deeplink \notin {Null, ""} THEN row.deeplink ELSE Null,
     status |-> row.status, amount |-> IntAmount(row.amount),
     expires_at |-> row.expires_at,
     txn_id |-> row.txn_id]

\* an initiation that does not look the terminal up
init_payment_unchecked(r) ==
    /\ rq[r].pc = "idle"
    /\ Len(db) + Cardinality({q \in Reqs : rq[q].pc \notin {"idle", "done"}}) < MaxRows
    /\ \E data \in InitPaymentRequest :
         rq' = [rq EXCEPT ![r] =
                  [NoRequest EXCEPT !.op = "init", !.request_id = data.request_id,
                                    !.terminal_id = data.terminal_id,
                                    !.amount = data.amount,
                                    !.used = UniqueViolation(db, data.request_id),
                                    !.pc = "exists"]]
    /\ UNCHANGED <<now, db, poller, pollers, generated, dbFaulty, app>>

\* init_payment, lines 168-182: the terminal is resolved
init_payment(r) ==
    /\ rq[r].pc = "idle"
    /\ Len(db) + Cardinality({q \in Reqs : rq[q].pc \notin {"idle", "done"}}) < MaxRows
    /\ \E data \in InitPaymentRequest :
         LET q == [NoRequest EXCEPT !.op = "init", !.request_id = data.request_id,
                                    !.terminal_id = data.terminal_id,
                                    !.amount = data.amount,
                                    !.used = UniqueViolation(db, data.request_id)]
         IN rq' = [rq EXCEPT ![r] =
                     IF data.terminal_id \in TerminalRows
                     THEN [q EXCEPT !.pc = "exists"]
                     ELSE Done(q, RouteError("NotFound"))]
    /\ UNCHANGED <<now, db, poller, pollers, generated, dbFaulty, app>>

\* init_payment, lines 184-187: the upfront existence check
existing(r) ==
    /\ rq[r].pc = "exists"
    /\ rq' = [rq EXCEPT ![r] =
                IF get_by_request_id(db, rq[r].request_id) # {}
                THEN Done(@, RouteError("Conflict"))
                ELSE [@ EXCEPT !.pc = "qr"]]
    /\ UNCHANGED <<now, db, poller, pollers, generated, dbFaulty, app>>

\* an initiation that stores the row first and asks for the QR code after
generate_qr_code_row_first(r) ==
    /\ rq[r].pc = "qr"
    /\ ~ UniqueViolation(db, rq[r].request_id)
    /\ \E outcome \in QrOutcomes \ {"SUCCESS"} :
         /\ db' = Append(db, PaymentModelDefaults(rq[r], now))
         /\ rq' = [rq EXCEPT ![r] =
                     Done([@ EXCEPT !.qr = outcome], RouteError(QrError(outcome)))]
    /\ UNCHANGED <<now, poller, pollers, generated, dbFaulty, app>>

\* init_payment, lines 203-219: the handler after createQR has answered
QrAnswered(q, outcome, dl, e) ==
    IF outcome = "SUCCESS"
    THEN [q EXCEPT !.pc = "create", !.qr = outcome,
                   !.qr_data = [deeplink |-> dl, expiryDate |-> e]]
    ELSE Done([q EXCEPT !.qr = outcome], RouteError(QrError(outcome)))

\* init_payment, lines 200-219: PayPayService is constructed (ValueError
\* without credentials), createQR is called and answers.  The SDK call is
\* synchronous: the event loop that serves the requests runs nothing else
\* until it returns, so for the handlers it is one step.
generate_qr_code(r) ==
    /\ rq[r].pc = "qr"
    /\ \E configured \in BOOLEAN, outcome \in QrOutcomes,
          dl \in Deeplinks, e \in ExpiryDates :
         rq' = [rq EXCEPT ![r] =
                 IF ~ configured
                 THEN Done(@, RouteError("ValueError"))
                 ELSE QrAnswered(@, outcome, dl, e)]
    /\ UNCHANGED <<now, db, poller, pollers, generated, dbFaulty, app>>

\* the same call as the poller thread sees it, which runs beside the event
\* loop: _generate_real_qr_code, line 84, has sent the request
create_qr_code(r) ==
    /\ rq[r].pc = "qr"
    /\ \E configured \in BOOLEAN :
         rq' = [rq EXCEPT ![r] =
                 IF configured
                 THEN [@ EXCEPT !.pc = "qr_wait"]
                 ELSE Done(@, RouteError("ValueError"))]
    /\ UNCHANGED <<now, db, poller, pollers, generated, dbFaulty, app>>

\* and the request returns or raises
create_qr_code_response(r) ==
    /\ rq[r].pc = "qr_wait"
    /\ \E outcome \in QrOutcomes, dl \in Deeplinks, e \in ExpiryDates :
         rq' = [rq EXCEPT ![r] = QrAnswered(@, outcome, dl, e)]
    /\ UNCHANGED <<now, db, poller, pollers, generated, dbFaulty, app>>

\* CRUDMixin.create: session.add and flush.  The INSERT waits while another
\* transaction holds an uncommitted row with the same key, and raises
\* IntegrityError when a committed row has it.  The handler then builds its
\* response (init_payment, lines 241-249).
create(r) ==
    /\ rq[r].pc = "create"
    /\ \A q \in Flushed : rq[q].request_id # rq[r].request_id
    /\ \E ok \in DbOutcomes :
         rq' = [rq EXCEPT ![r] =
                 IF UniqueViolation(db, rq[r].request_id)
                 THEN Done([@ EXCEPT !.violated = TRUE], RouteError("IntegrityError"))
                 ELSE IF ok
                      THEN [@ EXCEPT !.pc = "commit", !.created_at = now,
                                     !.response = InitPaymentResponse(rq[r])]
                      ELSE Done(@, RouteError("OperationalError"))]
    /\ UNCHANGED <<now, db, poller, pollers, generated, dbFaulty, app>>

\* DatabaseManager.get_session, lines 144-149: the commit after the handler
commit(r) ==
    /\ rq[r].pc = "commit"
    /\ \E ok \in DbOutcomes :
         IF ok
         THEN /\ db' = Append(db, PaymentModel(rq[r], rq[r].created_at))
              /\ rq' = [rq EXCEPT ![r] = Done(@, "Created")]
         ELSE /\ db' = db
              /\ rq' = [rq EXCEPT ![r] = Done(@, RouteError("OperationalError"))]
    /\ UNCHANGED <<now, poller, pollers, generated, dbFaulty, app>>

\* GET /payments/{request_id}: PaymentService.get_payment_status behind the
\* route get_payment_by_request_id
get_payment_status(r) ==
    /\ rq[r].pc = "idle"
    /\ \E k \in Keys, ok \in DbOutcomes :
         LET q == [NoRequest EXCEPT !.op = "status", !.request_id = k]
             found == get_by_request_id(db, k)
         IN rq' = [rq EXCEPT ![r] =
                     IF ~ ok
                     THEN Done(q, StatusRouteError("OperationalError"))
                     ELSE IF found = {}
                     THEN Done(q, StatusRouteError("ValueError"))
                     ELSE Done([q EXCEPT !.response =
                                   PaymentStatusResponse(db[CHOOSE i \in found : TRUE], now)],
                               "Status")]
    /\ UNCHANGED <<now, db, poller, pollers, generated, dbFaulty, app>>

\* the response is sent
respond(r) ==
    /\ rq[r].pc = "done"
    /\ rq' = [rq EXCEPT ![r] = NoRequest]
    /\ UNCHANGED <<now, db, poller, pollers, generated, dbFaulty, app>>

\* a Payment added without request_id, as in test_payment_request_id_unique:
\* the column default draws uuid4, the INSERT is checked like any other
add_payment ==
    /\ Len(db) + Cardinality({q \in Reqs : rq[q].pc \notin {"idle", "done"}}) < MaxRows
    /\ \E uuid4 \in Keys, am \in Amounts, e \in {TickSeconds} :
         /\ \A q \in Flushed : rq[q].request_id # uuid4
         /\ IF UniqueViolation(db, uuid4)
            THEN UNCHANGED <<db, generated>>
            ELSE /\ db' = Append(db, Row(uuid4, PENDING, e, now, am, 1, "paypay://a"))
                 /\ generated' = generated \cup {Len(db) + 1}
    /\ UNCHANGED <<now, poller, pollers, rq, dbFaulty, app>>

\* the stores the model starts from: n PENDING rows created at time 0, in the
\* order of their expiry (which row is which does not matter)
InitialStores ==
    UNION {{s \in [1 .. n -> {Row(k, PENDING, e, 0, 100000, 1, "paypay://a") :
                                k \in 1 .. MaxRows, e \in ExpiryDates}] :
              /\ \A i \in 1 .. n : s[i].request_id = i
              /\ \A i, j \in 1 .. n : i < j => s[i].expires_at <= s[j].expires_at} :
           n \in 0 .. MaxRows}

Init ==
    /\ now = 0
    /\ db \in InitialStores
    /\ pollers = {1}
    /\ poller = [p \in PollerIds |-> NewSession]
    /\ rq = [r \in Reqs |-> NoRequest]
    /\ generated = {}
    /\ dbFaulty = FALSE
    /\ app = Serving

PollerNext ==
    \E p \in PollerIds :
       \/ run_poller(p)
       \/ handle_expired_payments(p)
       \/ mark_timeout(p)
       \/ get_pending_payments(p)
       \/ rate_limit_delay(p)
       \/ get_payment_details(p)
       \/ psp_response(p)
       \/ check_payment_status(p)
       \/ check_interval(p)

InitiationNext ==
    \/ \E r \in Reqs :
          \/ init_payment(r)
          \/ existing(r)
          \/ generate_qr_code(r)
          \/ get_payment_status(r)
          \/ create(r)
          \/ commit(r)
          \/ respond(r)
    \/ add_payment

\* the poller process dies and is started again (a deployment, a kill): the
\* session and whatever it had not committed are gone
crash(p) ==
    /\ p \in pollers
    /\ poller[p].pc # "sleep"
    /\ poller' = [poller EXCEPT ![p] = NewSession]
    /\ UNCHANGED <<now, db, pollers, rq, generated, dbFaulty, app>>

(* ----------------------------- start-up ------------------------------- *)

\* the application before lifespan has run: no health check has succeeded
Starting == [pc |-> "initialize", healthy |-> FALSE]

\* lifespan, lines 35-36 and 42-44: db_manager.initialize builds the engine
\* and the session factory without connecting; it raises on a DATABASE_URL
\* that cannot be used, and lifespan raises again
initialize ==
    /\ app.pc = "initialize"
    /\ \E usable \in BOOLEAN :
         app' = [app EXCEPT !.pc = IF usable THEN "check_health" ELSE "failed"]
    /\ UNCHANGED <<now, db, poller, pollers, rq, generated, dbFaulty>>

\* DatabaseManager.check_health: SELECT 1; an exception is caught and
\* reported as healthy False.  lifespan, lines 37-41, logs either answer.
check_health ==
    /\ app.pc = "check_health"
    /\ \E ok \in DbOutcomes :
         app' = [app EXCEPT !.healthy = ok, !.pc = "start_poller"]
    /\ UNCHANGED <<now, db, poller, pollers, rq, generated, dbFaulty>>

\* lifespan, lines 46-49: start_payment_poller starts the poller thread, and
\* the application serves.  In the thread run_poller first creates its
\* engine and constructs PaymentPoller (lines 235-251), which raises without
\* PSP credentials; run_in_thread catches what run_poller raises, logs it and
\* the thread ends (lines 292-295): the loop runs only when the set-up
\* succeeded.
start_payment_poller ==
    /\ app.pc = "start_poller"
    /\ \E set_up \in BOOLEAN :
         pollers' = IF set_up THEN pollers \cup {1} ELSE pollers
    /\ app' = [app EXCEPT !.pc = "serving"]
    /\ UNCHANGED <<now, db, poller, rq, generated, dbFaulty>>

(* --------------------------- specifications --------------------------- *)

\* reconciliation over a store of pending payments, the database reliable
Next == PollerNext \/ Tick

Spec == Init /\ [][Next]_vars

\* reconciliation with statements and commits that can fail, and crashes
InitFault ==
    /\ now = 0
    /\ db \in InitialStores
    /\ pollers = {1}
    /\ poller = [p \in PollerIds |-> NewSession]
    /\ rq = [r \in Reqs |-> NoRequest]
    /\ generated = {}
    /\ dbFaulty = TRUE
    /\ app = Serving

NextFault == PollerNext \/ Tick \/ \E p \in PollerIds : backoff(p) \/ crash(p)

SpecFault == InitFault /\ [][NextFault]_vars

\* a burst of initiation requests against an empty store, no poller running
InitInitiation ==
    /\ now = 0
    /\ db = <<>>
    /\ pollers = {}
    /\ poller = [p \in PollerIds |-> NewSession]
    /\ rq = [r \in Reqs |-> NoRequest]
    /\ generated = {}
    /\ dbFaulty = FALSE
    /\ app = Serving

SpecInitiation == InitInitiation /\ [][InitiationNext]_vars

\* a backlog: e PENDING payments created at 0 whose expiry, TickSeconds, is
\* not after the clock the specifications below start at
DueStores ==
    {[i \in 1 .. e |-> Row(i, PENDING, TickSeconds, 0, 100000, 1, "paypay://a")] :
        e \in 0 .. MaxExpired}

\* the expiry pass over a backlog, with or without one payment still active
InitExpiry ==
    /\ now = TickSeconds
    /\ db \in DueStores \cup
              {Append(s, Row(Len(s) + 1, PENDING, 2 * TickSeconds, 0, 100000, 1,
                            "paypay://a")) :
                 s \in DueStores}
    /\ pollers = {1}
    /\ poller = [p \in PollerIds |-> NewSession]
    /\ rq = [r \in Reqs |-> NoRequest]
    /\ generated = {}
    /\ dbFaulty = FALSE
    /\ app = Serving

\* a batch of one payment has no rate limit delay
NextExpiry ==
    \/ \E p \in PollerIds :
          \/ run_poller(p)
          \/ handle_expired_payments(p)
          \/ mark_timeout(p)
          \/ get_pending_payments(p)
          \/ get_payment_details(p)
          \/ psp_response(p)
          \/ check_payment_status(p)
          \/ check_interval(p)
    \/ Tick

SpecExpiry == InitExpiry /\ [][NextExpiry]_vars

\* PaymentService.init_payment stores a PENDING payment, and its expiry
\* passes.  Neither query of the poller reads a row that is not PENDING, so
\* the store is followed as a window: the new payment takes the place of a
\* TIMEOUT one, and instants are kept relative to the clock (a due payment is
\* one whose expires_at is not after now).  The poller reads the store once
\* per cycle, in its two SELECTs, so an arrival at any instant is seen as one
\* during the sleep between two cycles; and as one place of a TIMEOUT payment
\* is as good as another, it takes the first.
new_payment_due(r) ==
    /\ r \in DOMAIN db
    /\ \A p \in pollers : poller[p].pc = "sleep"
    /\ db[r].status = TIMEOUT
    /\ \A q \in 1 .. r - 1 : db[q].status # TIMEOUT
    /\ db' = [db EXCEPT ![r] = Row(db[r].request_id, PENDING, now, 0, 100000, 1,
                                       "paypay://a")]
    /\ UNCHANGED <<now, poller, pollers, rq, generated, dbFaulty, app>>

\* the steps of the poller loop over a store where every payment is due
PollerLoop ==
    \E p \in PollerIds :
       \/ run_poller(p)
       \/ handle_expired_payments(p)
       \/ mark_timeout(p)
       \/ get_pending_payments(p)
       \/ check_interval(p)

InitLive ==
    /\ now = TickSeconds
    /\ db \in DueStores
    /\ pollers = {1}
    /\ poller = [p \in PollerIds |-> NewSession]
    /\ rq = [r \in Reqs |-> NoRequest]
    /\ generated = {}
    /\ dbFaulty = FALSE
    /\ app = Serving

NextLive == PollerLoop \/ \E r \in 1 .. MaxExpired : new_payment_due(r)

\* run_poller is a while True loop on its own thread: it keeps taking steps;
\* nothing obliges payments to keep arriving
SpecLive == InitLive /\ [][NextLive]_vars /\ WF_vars(PollerLoop)

\* the poller loop over one due and some active payments, every statement,
\* commit and session able to fail, the clock standing still
InitLoop ==
    /\ now = TickSeconds
    /\ db = [i \in 1 .. MaxRows + 1 |->
               Row(i, PENDING, IF i = 1 THEN TickSeconds ELSE 3 * TickSeconds, 0,
                   100000, 1, "paypay://a")]
    /\ pollers = {1}
    /\ poller = [p \in PollerIds |-> NewSession]
    /\ rq = [r \in Reqs |-> NoRequest]
    /\ generated = {}
    /\ dbFaulty = TRUE
    /\ app = Serving

NextLoop == PollerNext \/ \E p \in PollerIds : backoff(p)

\* run_poller has a thread and an event loop of its own: a sleep ends, a
\* statement and a PSP call return or raise
SpecLoop == InitLoop /\ [][NextLoop]_vars /\ WF_vars(NextLoop)

\* the application starts over a store of pending payments, with a database
\* that may not answer
InitStartup ==
    /\ now = TickSeconds
    /\ db = [i \in 1 .. MaxRows |->
               Row(i, PENDING, IF i = 1 THEN TickSeconds ELSE 3 * TickSeconds, 0,
                   100000, 1, "paypay://a")]
    /\ pollers = {}
    /\ poller = [p \in PollerIds |-> NewSession]
    /\ rq = [r \in Reqs |-> NoRequest]
    /\ generated = {}
    /\ dbFaulty = TRUE
    /\ app = Starting

\* a batch of one payment has no rate limit delay
NextStartup ==
    \/ initialize
    \/ check_health
    \/ start_payment_poller
    \/ \E p \in PollerIds :
          \/ run_poller(p)
          \/ handle_expired_payments(p)
          \/ mark_timeout(p)
          \/ get_pending_payments(p)
          \/ get_payment_details(p)
          \/ psp_response(p)
          \/ check_payment_status(p)
          \/ check_interval(p)
          \/ backoff(p)

SpecStartup == InitStartup /\ [][NextStartup]_vars

\* one process as main.py runs it: the event loop serving an initiation and
\* the poller thread beside it, over payments created earlier (their keys
\* are none a request sends), the database reliable, the clock standing still
InitProcess ==
    /\ now = TickSeconds
    /\ db = [i \in 1 .. MaxRows - 1 |->
               Row(MaxRows + i, PENDING, 3 * TickSeconds, 0, 100000, 1, "paypay://a")]
    /\ pollers = {1}
    /\ poller = [p \in PollerIds |-> NewSession]
    /\ rq = [r \in Reqs |-> NoRequest]
    /\ generated = {}
    /\ dbFaulty = FALSE
    /\ app = Serving

NextProcess ==
    \/ PollerNext
    \/ \E r \in {1} :
          \/ init_payment(r)
          \/ existing(r)
          \/ create_qr_code(r)
          \/ create_qr_code_response(r)
          \/ create(r)
          \/ commit(r)
          \/ respond(r)

SpecProcess == InitProcess /\ [][NextProcess]_vars

\* payments created one second apart, the newest c of them COMPLETED and the
\* others PENDING, more of these than a batch takes when c is 0, and one
\* PENDING payment created max_pending_time ago that has not expired
BatchStores ==
    {[i \in 1 .. MaxActive + 1 |->
        IF i <= MaxActive
        THEN [Row(i, PENDING, max_pending_time + TickSeconds,
                  max_pending_time - i, 100000, 1, "paypay://a")
                 EXCEPT !.status = IF i <= c THEN COMPLETED ELSE PENDING]
        ELSE Row(i, PENDING, max_pending_time + TickSeconds, 0, 100000, 1,
                 "paypay://a")] :
       c \in 0 .. MaxActive}

\* the poller over such a store, the database reliable, the clock standing
\* still
InitBatch ==
    /\ now = max_pending_time
    /\ db \in BatchStores
    /\ pollers = {1}
    /\ poller = [p \in PollerIds |-> NewSession]
    /\ rq = [r \in Reqs |-> NoRequest]
    /\ generated = {}
    /\ dbFaulty = FALSE
    /\ app = Serving

\* nothing has been written to the store and no call has failed
Untouched ==
    /\ \A r \in DOMAIN db : db[r].updated_at = db[r].created_at
    /\ \A p \in pollers : poller[p].retry = {}

\* no payment is due, so the expiry pass marks nothing; the cycles are
\* followed to the end of the first one that wrote a row or had a call fail
NextBatch ==
    \E p \in PollerIds :
       \/ Untouched /\ run_poller(p)
       \/ handle_expired_payments(p)
       \/ get_pending_payments(p)
       \/ rate_limit_delay(p)
       \/ get_payment_details(p)
       \/ psp_response(p)
       \/ check_payment_status(p)
       \/ check_interval(p)

SpecBatch == InitBatch /\ [][NextBatch]_vars

(* ------------------------------ claims -------------------------------- *)

\* C1: with a single poller, once a payment's status is COMPLETED, FAILED,
\* CANCELLED or TIMEOUT, no step of a reconciliation cycle (expiry pass,
\* PSP-driven pass, failed commit, rollback, crash) changes its status or its
\* txn_id, whatever the PSP reports.
MonotonicTerminality ==
    [][\A r \in DOMAIN db :
          db[r].status \in {"COMPLETED", "FAILED", "CANCELLED", "TIMEOUT"} =>
              /\ r \in DOMAIN db'
              /\ db'[r].status = db[r].status
              /\ db'[r].txn_id = db[r].txn_id]_vars

\* C1 witness: the expiry pass of a later cycle is about to mark rows while a
\* COMPLETED payment whose expiry has passed sits in the store
CompletedRowMeetsExpiryPass ==
    \E r \in DOMAIN db :
       /\ db[r].status = "COMPLETED"
       /\ poller[1].pc = "mark"
       /\ db[r].expires_at <= poller[1].now

\* C2: at most one row per request_id, and every row has one (a row added
\* without request_id gets the generated one), under any interleaving of
\* initiations and additions.
OneRowPerRequestId ==
    /\ \A i, j \in DOMAIN db : i # j => db[i].request_id # db[j].request_id
    /\ \A i \in DOMAIN db : db[i].request_id \in Keys
    /\ generated \subseteq DOMAIN db

\* C2 witness: two rows whose request_id was generated are in the store
TwoGeneratedRows == Cardinality(generated) >= 2

\* C3 (as amended): an init_payment whose request_id is already used by a
\* persisted row fails with Conflict when its terminal resolves and with
\* NotFound when it does not, whatever its amount; one row has the key after.
DuplicateKeyRejected ==
    \A r \in Reqs :
       (rq[r].pc = "done" /\ rq[r].used) =>
          /\ rq[r].result = IF rq[r].terminal_id = 1 THEN "Conflict" ELSE "NotFound"
          /\ Cardinality({i \in DOMAIN db : db[i].request_id = rq[r].request_id}) = 1

\* C3 witness: a request reusing a key with another amount got Conflict
DuplicateWithOtherAmountRejected ==
    \E r \in Reqs, i \in DOMAIN db :
       /\ rq[r].pc = "done" /\ rq[r].used /\ rq[r].result = "Conflict"
       /\ db[i].request_id = rq[r].request_id
       /\ db[i].amount # rq[r].amount

\* C3 as stated: the second initiation with a used key fails with Conflict
\* whatever the rest of the payload, the terminal reference included
DuplicateKeyAlwaysConflict ==
    \A r \in Reqs :
       (rq[r].pc = "done" /\ rq[r].used) =>
          /\ rq[r].result = "Conflict"
          /\ Cardinality({i \in DOMAIN db : db[i].request_id = rq[r].request_id}) = 1

\* C4 as stated: a request that passed the existence check and whose INSERT
\* violated the uniqueness constraint gets Conflict
InsertRaceSurfacesConflict ==
    \A r \in Reqs :
       (rq[r].pc = "done" /\ rq[r].violated) => rq[r].result = "Conflict"

\* C7: for a PENDING row whose PSP call returned result code SUCCESS,
\* check_payment_status moves it by the table: COMPLETED -> COMPLETED with
\* txn_id the PSP payment id, FAILED -> FAILED, EXPIRED -> TIMEOUT,
\* CANCELED -> CANCELLED, anything else or nothing -> the row stays as it is.
StatusMapping ==
    [][\A p \in pollers :
          (/\ poller[p].pc = "apply" /\ poller'[p].pc # "apply"
           /\ poller[p].resp.kind = "SUCCESS") =>
             LET r == poller[p].payments[poller[p].i]
                 st == poller[p].resp.status
             IN /\ db[r].status = "PENDING"
                /\ st = "COMPLETED" =>
                      /\ db'[r].status = "COMPLETED"
                      /\ db'[r].txn_id = poller[p].resp.paymentId
                /\ st = "FAILED" =>
                      db'[r].status = "FAILED" /\ db'[r].txn_id = db[r].txn_id
                /\ st = "EXPIRED" =>
                      db'[r].status = "TIMEOUT" /\ db'[r].txn_id = db[r].txn_id
                /\ st = "CANCELED" =>
                      db'[r].status = "CANCELLED" /\ db'[r].txn_id = db[r].txn_id
                /\ st \notin {"COMPLETED", "FAILED", "EXPIRED", "CANCELED"} =>
                      db'[r] = db[r]]_vars

\* C7 witness: the PSP-driven pass has completed one payment under the PSP's
\* payment id and cancelled another
CompletedAndCancelled ==
    \E r1, r2 \in DOMAIN db :
       /\ db[r1].status = "COMPLETED" /\ db[r1].txn_id = "txn-9"
       /\ db[r2].status = "CANCELLED" /\ db[r2].txn_id = "null"

\* C8 as stated: when a cycle is over, every row of the batch that came after
\* a row whose processing raised has had its PSP call
BatchIsolation ==
    \A p \in pollers :
       poller[p].pc = "finish" =>
          \A n, m \in DOMAIN poller[p].payments :
             (n < m /\ poller[p].payments[n] \in poller[p].raised) =>
                 poller[p].payments[m] \in poller[p].called

\* C9: when getPaymentDetails raises or returns a result code other than
\* SUCCESS for a row, the stored row is not touched (it stays PENDING with its
\* txn_id and updated_at), and the next selection returns every such row that
\* is still pending, inside the pending window and not past its expiry.
FailedCallLeavesRowEligible ==
    [][\A p \in pollers :
          /\ (/\ poller[p].pc = "apply" /\ poller'[p].pc # "apply"
              /\ poller[p].resp.kind \in {"raise", "error_code"}) =>
                LET r == poller[p].payments[poller[p].i]
                IN /\ db'[r] = db[r]
                   /\ db'[r].status = "PENDING"
                   /\ r \in poller'[p].retry
          /\ (poller[p].pc = "select" /\ poller'[p].pc = "check") =>
                \A r \in poller[p].retry :
                   (/\ db[r].status = "PENDING"
                    /\ db[r].created_at > now - 600
                    /\ db[r].expires_at > now) =>
                       \E n \in DOMAIN poller'[p].payments : poller'[p].payments[n] = r]_vars

\* C9 witness: the PSP is being called for a row whose call failed in an
\* earlier cycle
FailedRowPolledAgain ==
    \E p \in pollers :
       /\ poller[p].pc = "wait"
       /\ poller[p].payments[poller[p].i] \in poller[p].retry
       /\ db[poller[p].payments[poller[p].i]].status = "PENDING"

\* C10: the store changes only in a commit, and the commit of a PSP-driven
\* transition writes one row, the one being processed, with status, txn_id
\* and updated_at together; a failed call, a failed commit, a rollback or a
\* crash changes no row, so what earlier rows of the batch got stays.
TransitionsCommittedIndividually ==
    [][\A p \in pollers : \A r \in DOMAIN db :
          /\ DOMAIN db' = DOMAIN db
          /\ db[r].status # "PENDING" => db'[r] = db[r]
          /\ db'[r] # db[r] =>
                \/ poller[p].pc = "mark" /\ r \in poller[p].expired_payments
                \/ /\ poller[p].pc = "apply"
                   /\ poller[p].resp.kind = "SUCCESS"
                   /\ r = poller[p].payments[poller[p].i]
                   /\ \A q \in DOMAIN db \ {r} : db'[q] = db[q]
                   /\ db'[r].status \in {"COMPLETED", "FAILED", "CANCELLED", "TIMEOUT"}
                   /\ db'[r].updated_at = now
                   /\ db'[r].txn_id = IF db'[r].status = "COMPLETED"
                                      THEN poller[p].resp.paymentId
                                      ELSE db[r].txn_id]_vars

\* C10 witness: the first row of a batch was completed and committed, the
\* commit for the second failed and was rolled back, and the first row holds
\* its status and txn_id
CommittedRowSurvivesLaterFailure ==
    \E p \in pollers :
       /\ Len(poller[p].payments) = 2
       /\ db[poller[p].payments[1]].status = "COMPLETED"
       /\ db[poller[p].payments[1]].txn_id = "txn-9"
       /\ poller[p].payments[2] \in poller[p].raised
       /\ poller[p].payments[2] \in poller[p].called
       /\ db[poller[p].payments[2]].status = "PENDING"

DuePaymentTimesOut ==
    \A r \in 1 .. MaxExpired :
       (r \in DOMAIN db /\ db[r].status = "PENDING" /\ db[r].expires_at <= now)
          ~> (r \in DOMAIN db /\ db[r].status = "TIMEOUT")

\* C11: an init_payment whose terminal_id does not resolve ends with NotFound
\* at once: it made no createQR call, and no row of the store carries a
\* terminal that does not resolve.
UnknownTerminalNotFound ==
    /\ \A r \in Reqs :
          (rq[r].op = "init" /\ rq[r].terminal_id \notin TerminalRows) =>
             /\ rq[r].pc = "done"
             /\ rq[r].result = "NotFound"
             /\ rq[r].qr = "none"
    /\ \A i \in DOMAIN db : db[i].terminal_id \in TerminalRows

\* C11 witness: a request with an unknown terminal and a fresh key was
\* answered NotFound
UnknownTerminalAnswered ==
    \E r \in Reqs :
       /\ rq[r].pc = "done" /\ rq[r].op = "init"
       /\ rq[r].terminal_id \notin TerminalRows
       /\ ~ rq[r].used
       /\ rq[r].result = "NotFound"

\* C12: every row that enters the store enters it PENDING with txn_id null,
\* and the row a successful init_payment commits carries the deeplink and the
\* expiryDate of the createQR response of that request.
CreatedRowFromQrResponse ==
    [][Len(db') > Len(db) =>
          /\ Len(db') = Len(db) + 1
          /\ db'[Len(db')].status = "PENDING"
          /\ db'[Len(db')].txn_id = Null
          /\ \A r \in Reqs :
                (rq[r].pc = "commit" /\ rq'[r].pc = "done") =>
                   /\ rq'[r].result = "Created"
                   /\ db'[Len(db')].request_id = rq[r].request_id
                   /\ db'[Len(db')].deeplink = rq[r].qr_data.deeplink
                   /\ db'[Len(db')].deeplink \in Deeplinks
                   /\ db'[Len(db')].expires_at = rq[r].qr_data.expiryDate
                   /\ db'[Len(db')].expires_at \in ExpiryDates]_vars

\* C12 witness: an initiation was answered Created and its row holds the
\* deeplink and the expiry the PSP gave for it
CreatedRowStored ==
    \E r \in Reqs, i \in DOMAIN db :
       /\ rq[r].pc = "done" /\ rq[r].result = "Created"
       /\ db[i].request_id = rq[r].request_id
       /\ db[i].status = "PENDING"
       /\ db[i].deeplink = "paypay://b" /\ rq[r].qr_data.deeplink = "paypay://b"
       /\ db[i].expires_at = 2 * TickSeconds
       /\ rq[r].qr_data.expiryDate = 2 * TickSeconds

\* C13 as stated: the response of a successful init_payment equals, field by
\* field, what get_payment_status returns for the same request_id right
\* after, no reconciliation cycle having run.
InitResponseEqualsStatus ==
    \A r \in Reqs :
       (rq[r].pc = "done" /\ rq[r].result = "Created") =>
          \A i \in get_by_request_id(db, rq[r].request_id) :
             rq[r].response = PaymentStatusResponse(db[i], now)

\* C14: an initiation whose createQR call ended with a result code other
\* than SUCCESS (UNAUTHORIZED included) is answered BadRequest; one whose call
\* raised, or answered without a usable data envelope, is answered
\* UpstreamError; neither kind is turned into the other on the way out.
PspOutcomeMappedOneToOne ==
    \A r \in Reqs :
       rq[r].pc = "done" =>
          /\ rq[r].qr \in {"UNAUTHORIZED", "error_code"} => rq[r].result = "BadRequest"
          /\ rq[r].qr \in {"raise", "no_data", "bad_data"} => rq[r].result = "UpstreamError"

\* C14 witness: one initiation was refused by the PSP and answered BadRequest,
\* another got no data envelope and was answered UpstreamError
BothPspFailuresAnswered ==
    \E r, q \in Reqs :
       /\ rq[r].pc = "done" /\ rq[r].qr = "UNAUTHORIZED" /\ rq[r].result = "BadRequest"
       /\ rq[q].pc = "done" /\ rq[q].qr = "no_data" /\ rq[q].result = "UpstreamError"

\* C15 as stated: an init_payment that fails reaches the caller as NotFound,
\* Conflict, BadRequest or UpstreamError, whatever failed.
InitFailuresInFourCategories ==
    \A r \in Reqs :
       (rq[r].pc = "done" /\ rq[r].op = "init" /\ rq[r].result # "Created") =>
          rq[r].result \in {"NotFound", "Conflict", "BadRequest", "UpstreamError"}

\* C16: the step in which an initiation's createQR call fails leaves the
\* store as it was, and an initiation is answered Conflict only when a row
\* with its request_id is in the store: a failed createQR leaves nothing
\* behind for a later initiation with the same request_id to collide with.
FailedQrPersistsNothing ==
    [][\A r \in Reqs :
          /\ (rq[r].pc = "qr" /\ rq'[r].pc = "done") => db' = db
          /\ (rq[r].pc # "done" /\ rq'[r].pc = "done" /\ rq'[r].result = "Conflict") =>
                get_by_request_id(db, rq'[r].request_id) # {}]_vars

\* C16 witness: createQR failed for an initiation with a fresh request_id,
\* and another initiation with the same request_id was answered Created
SameKeyCreatedAfterQrFailure ==
    \E r, q \in Reqs :
       /\ rq[r].pc = "done" /\ rq[r].op = "init" /\ ~ rq[r].used
       /\ rq[r].qr \in QrOutcomes \ {"SUCCESS"}
       /\ rq[q].pc = "done" /\ rq[q].result = "Created" /\ ~ rq[q].used
       /\ rq[q].request_id = rq[r].request_id
       /\ Cardinality(get_by_request_id(db, rq[r].request_id)) = 1

\* C17: a status lookup for a request_id without a row is answered NotFound,
\* one for a request_id with a row is answered with that row's status, and
\* the lookup leaves every row as it was.
StatusLookupReadsOnly ==
    [][\A r \in Reqs :
          (rq[r].pc = "idle" /\ rq'[r].op = "status") =>
             /\ db' = db
             /\ rq'[r].pc = "done"
             /\ get_by_request_id(db, rq'[r].request_id) = {} =>
                   rq'[r].result = "NotFound"
             /\ \A i \in get_by_request_id(db, rq'[r].request_id) :
                   /\ rq'[r].result = "Status"
                   /\ rq'[r].response.request_id = db[i].request_id
                   /\ rq'[r].response.status = db[i].status]_vars

\* C17 witness: with a row in the store, a lookup of another request_id was
\* answered NotFound and a lookup of the row's request_id was answered
UnknownAndKnownLookedUp ==
    \E r, q \in Reqs :
       /\ rq[r].pc = "done" /\ rq[r].op = "status" /\ rq[r].result = "NotFound"
       /\ get_by_request_id(db, rq[r].request_id) = {}
       /\ rq[q].pc = "done" /\ rq[q].op = "status" /\ rq[q].result = "Status"
       /\ get_by_request_id(db, rq[q].request_id) # {}

\* C20: a payment whose txn_id is set has status COMPLETED, in every state
\* reconciliation reaches (faulty database and crashes included).
TxnIdOnlyOnCompleted ==
    \A r \in DOMAIN db : db[r].txn_id # Null => db[r].status = "COMPLETED"

\* C20 witness: one payment is COMPLETED with the PSP's payment id, and
\* another one was moved to FAILED, CANCELLED or TIMEOUT and has none
CompletedWithTxnBesideFailed ==
    \E r, q \in DOMAIN db :
       /\ db[r].status = "COMPLETED" /\ db[r].txn_id = "txn-9"
       /\ db[q].status \in {"FAILED", "CANCELLED", "TIMEOUT"} /\ db[q].txn_id = Null
       /\ db[q].updated_at > db[q].created_at

\* C18: whatever fails in a cycle of the poller (a PSP call, a SELECT, a
\* commit, the session), the cycle ends and a further cycle starts.
CycleFollowedByCycle ==
    \A p \in {1} :
       (poller[p].pc \in {"finish", "backoff"}) ~> (poller[p].pc = "expire")

\* C18 witness: a cycle starts after one in which a PSP call failed
CycleAfterFailedCycle ==
    poller[1].pc = "expire" /\ poller[1].retry # {}

\* C19 as stated: when the database does not answer at start-up, the
\* poller is not started and the application does not serve.
StartupFailsWithoutDatabase ==
    (app.pc \in {"start_poller", "serving"} \/ pollers # {}) => app.healthy

\* C21: no step of reconciliation (expiry pass, PSP-driven transition, failed
\* commit, rollback, crash) removes a row or changes its request_id,
\* expires_at, created_at, amount, deeplink or terminal: a transition writes
\* status, txn_id and updated_at only.
TransitionsKeepCreationFields ==
    [][\A r \in DOMAIN db :
          /\ r \in DOMAIN db'
          /\ db'[r].request_id = db[r].request_id
          /\ db'[r].expires_at = db[r].expires_at
          /\ db'[r].created_at = db[r].created_at
          /\ db'[r].amount = db[r].amount
          /\ db'[r].deeplink = db[r].deeplink
          /\ db'[r].terminal_id = db[r].terminal_id]_vars

\* C21 witness: the PSP-driven pass completed one payment and the expiry pass
\* timed out another, each with the expiry it was created with
BothPassesWroteRows ==
    \E r, q \in DOMAIN db :
       /\ db[r].status = "COMPLETED" /\ db[r].txn_id = "txn-9"
       /\ db[r].updated_at > db[r].created_at
       /\ db[r].expires_at \in ExpiryDates /\ db[r].deeplink \in Deeplinks
       /\ db[q].status = "TIMEOUT" /\ db[q].updated_at >= db[q].expires_at
       /\ db[q].expires_at \in ExpiryDates /\ db[q].deeplink \in Deeplinks

\* C22: a cycle begins with the expiry pass; the active batch is selected
\* only when the pass has ended (its selection marked and committed, or
\* nothing selected); no step of the pass calls the PSP, and a PSP call is
\* made only for a row of the batch selected after the pass.
ExpiryPassFirst ==
    [][\A p \in pollers :
          /\ (poller[p].pc = "sleep" /\ poller'[p].pc # "sleep") =>
                poller'[p].pc = "expire"
          /\ (poller[p].pc # "select" /\ poller'[p].pc = "select") =>
                /\ poller[p].pc \in {"expire", "mark"}
                /\ poller'[p].expired_payments = {}
          /\ poller[p].pc \in {"expire", "mark"} =>
                /\ poller'[p].pc \in {"expire", "mark", "select"}
                /\ poller'[p].called = poller[p].called
                /\ poller'[p].resp = NoResponse
          /\ poller'[p].called \ poller[p].called # {} =>
                /\ poller[p].pc = "check"
                /\ poller'[p].called \ poller[p].called \subseteq Range(poller[p].payments)]_vars

\* C22 witness: the expiry pass is about to time out a payment whose PSP call
\* failed in an earlier cycle
ExpiryPassAfterFailedCalls ==
    /\ poller[1].pc = "mark"
    /\ poller[1].expired_payments \cap poller[1].retry # {}
    /\ poller[1].called = {}

\* C23: the step that ends the expiry pass either makes every selected row
\* TIMEOUT with updated_at the instant the pass read, or leaves the store as
\* it was; rows the pass did not select are untouched either way.
ExpiryPassAllOrNothing ==
    [][\A p \in pollers :
          (poller[p].pc = "mark" /\ poller'[p].pc # "mark") =>
             \/ db' = db
             \/ /\ DOMAIN db' = DOMAIN db
                /\ \A r \in DOMAIN db :
                      IF r \in poller[p].expired_payments
                      THEN db'[r] = [db[r] EXCEPT !.status = "TIMEOUT",
                                                  !.updated_at = poller[p].now]
                      ELSE db'[r] = db[r]]_vars

\* C23 witness: one commit of the expiry pass timed out two payments
TwoTimedOutTogether ==
    \E r, q \in DOMAIN db :
       /\ r # q
       /\ db[r].status = "TIMEOUT" /\ db[q].status = "TIMEOUT"
       /\ db[r].updated_at = db[q].updated_at
       /\ db[r].expires_at = db[q].expires_at
       /\ poller[1].pc = "select" /\ poller[1].called = {}

\* the PSP calls in flight: the getPaymentDetails calls of the pollers and
\* the createQR calls of the initiations
CallsInFlight ==
    Cardinality({p \in pollers : poller[p].pc = "wait"})
       + Cardinality({r \in Reqs : rq[r].pc = "qr_wait"})

\* C24 (as amended): within a batch the poller makes its getPaymentDetails
\* calls one after the other: the first call follows the selection with no
\* delay, every later call follows a rate-limit delay that follows the end
\* of the call before, and a poller has one call in flight at most.
PollerCallsSequential ==
    [][\A p \in pollers :
          /\ (poller[p].pc # "check" /\ poller'[p].pc = "check") =>
                IF poller'[p].i = 1
                THEN poller[p].pc = "select"
                ELSE poller[p].pc = "delay" /\ poller'[p].i = poller[p].i
          /\ (poller[p].pc # "delay" /\ poller'[p].pc = "delay") =>
                /\ poller[p].pc = "apply"
                /\ poller'[p].i = poller[p].i + 1
          /\ (poller[p].pc # "wait" /\ poller'[p].pc = "wait") =>
                /\ poller[p].pc = "check"
                /\ poller'[p].called = poller[p].called \cup {poller[p].payments[poller[p].i]}
                /\ Cardinality(poller'[p].called) = poller[p].i]_vars

\* C24 witness: the second call of a batch is in flight, after the delay
SecondCallInFlight ==
    /\ poller[1].pc = "wait"
    /\ poller[1].i = 2
    /\ Cardinality(poller[1].called) = 2

\* C24 as stated: no two PSP calls of the process are in flight together
OneCallInFlight == CallsInFlight <= 1

\* C25: the batch a cycle selects holds the newest rows, five at most and
\* five when there are as many, among those that are PENDING, expire after
\* now and were created less than 600 s before now; every getPaymentDetails
\* call of the cycle is for a row of that batch, one call per row at most.
BatchIsNewestActiveFive ==
    [][\A p \in pollers :
          LET eligible == {r \in DOMAIN db :
                             /\ db[r].status = "PENDING"
                             /\ db[r].expires_at > now
                             /\ db[r].created_at > now - 600}
              batch == Range(poller'[p].payments)
          IN /\ (poller[p].pc = "select" /\ poller'[p].pc # "select") =>
                   /\ batch \subseteq eligible
                   /\ Cardinality(batch) = Len(poller'[p].payments)
                   /\ Len(poller'[p].payments) = Min(5, Cardinality(eligible))
                   /\ \A r \in batch, o \in eligible \ batch :
                         db[r].created_at >= db[o].created_at
                   /\ \A i, j \in DOMAIN poller'[p].payments :
                         i < j => db[poller'[p].payments[i]].created_at
                                     >= db[poller'[p].payments[j]].created_at
             /\ (poller[p].pc # "wait" /\ poller'[p].pc = "wait") =>
                   /\ poller'[p].called \subseteq Range(poller[p].payments)
                   /\ Cardinality(poller'[p].called) = Cardinality(poller[p].called) + 1
                   /\ Cardinality(poller'[p].called) <= 5]_vars

\* C25 witness: the fifth call of a batch is in flight while a sixth active
\* payment, older than the five, was left out of the batch
FifthCallOfFullBatch ==
    /\ poller[1].pc = "wait"
    /\ Cardinality(poller[1].called) = 5
    /\ \E o \in DOMAIN db \ Range(poller[1].payments) :
          /\ IsActive(db[o], now)
          /\ \A r \in Range(poller[1].payments) : db[r].created_at > db[o].created_at

\* C26 (as amended): a PENDING payment created max_pending_time or more ago
\* is in no batch selected from then on, so no later cycle polls it; the
\* only thing a later cycle does to it is the expiry pass making it TIMEOUT,
\* when its expires_at is not after the instant the pass read.
OldPendingOnlyExpires ==
    [][\A p \in pollers : \A r \in DOMAIN db :
          (db[r].status = "PENDING" /\ db[r].created_at <= now - 600) =>
             /\ (poller[p].pc = "select" /\ poller'[p].pc # "select") =>
                   r \notin Range(poller'[p].payments)
             /\ r \notin Range(poller[p].payments) =>
                   \/ db'[r] = db[r]
                   \/ /\ poller[p].pc = "mark"
                      /\ db[r].expires_at <= poller[p].now
                      /\ db'[r] = [db[r] EXCEPT !.status = "TIMEOUT",
                                                !.updated_at = poller[p].now]]_vars

\* C26 witness: a cycle ended without a call while a payment older than the
\* window, not yet expired, is PENDING, and the expiry pass timed out another
OldPendingLeftAndOldTimedOut ==
    \E r, q \in DOMAIN db :
       /\ poller[1].pc = "finish" /\ poller[1].payments = <<>> /\ poller[1].called = {}
       /\ db[r].status = "PENDING" /\ db[r].created_at <= now - 600
       /\ db[r].expires_at > now
       /\ db[q].status = "TIMEOUT" /\ db[q].created_at <= now - 600
       /\ db[q].updated_at = now

\* C26 as stated: a PENDING payment older than the window is not selected
\* and is left PENDING by every later cycle
OldPendingLeftPending ==
    [][\A p \in pollers : \A r \in DOMAIN db :
          (db[r].status = "PENDING" /\ db[r].created_at <= now - 600) =>
             /\ (poller[p].pc = "select" /\ poller'[p].pc # "select") =>
                   r \notin Range(poller'[p].payments)
             /\ r \notin Range(poller[p].payments) => db'[r].status = "PENDING"]_vars

\* C27 as stated: a cycle whose active-selection query failed is followed by
\* the backoff sleep, not by the normal check interval.
FailedSelectionBacksOff ==
    [][\A p \in pollers :
          (/\ poller[p].pc = "finish" /\ poller[p].select_failed
           /\ poller'[p].pc # "finish") =>
             poller'[p].pc = "backoff"]_vars

(* -------------------- the status update by request_id ------------------ *)

\* PaymentRepository.update_status_by_request_id, which
\* PaymentService.update_payment_status_by_request_id passes its arguments
\* to: no row, no write; otherwise the status is assigned whatever the
\* stored one is, txn_id is assigned when one is given, and the commit
\* stamps updated_at
update_status_by_request_id ==
    \E request_id \in Keys, status \in PaymentStatus,
       txn_id \in PaymentIds \cup {Null} :
       /\ IF get_by_request_id(db, request_id) = {}
          THEN UNCHANGED db
          ELSE \E i \in get_by_request_id(db, request_id) :
                  db' = [db EXCEPT ![i] =
                           [@ EXCEPT !.status = status,
                                     !.txn_id = IF txn_id # Null THEN txn_id ELSE @,
                                     !.updated_at = now]]
       /\ UNCHANGED <<now, poller, pollers, rq, generated, dbFaulty, app>>

\* the poller and the status update over the same store, at an instant when
\* the earliest expiry has passed
InitUpdate ==
    /\ now = TickSeconds
    /\ db \in InitialStores
    /\ pollers = {1}
    /\ poller = [p \in PollerIds |-> NewSession]
    /\ rq = [r \in Reqs |-> NoRequest]
    /\ generated = {}
    /\ dbFaulty = FALSE
    /\ app = Serving

NextUpdate == PollerNext \/ update_status_by_request_id

SpecUpdate == InitUpdate /\ [][NextUpdate]_vars

\* C28 as stated: a step of update_status_by_request_id (one that moves
\* neither the poller nor the clock) leaves the status and the txn_id of a
\* payment that is COMPLETED, FAILED, CANCELLED or TIMEOUT as they are.
UpdateOfTerminalIsNoOp ==
    [][(poller' = poller /\ now' = now) =>
          \A i \in DOMAIN db :
             db[i].status \in Terminal =>
                /\ db'[i].status = db[i].status
                /\ db'[i].txn_id = db[i].txn_id]_vars

(* ------------------------- two poller instances ----------------------- *)

\* lifespan runs once in every worker process of the application, so a
\* deployment with two workers has two poller threads over the one store
InitTwo ==
    /\ now = 0
    /\ db \in {s \in InitialStores : Len(s) = 1}
    /\ pollers = PollerIds
    /\ poller = [p \in PollerIds |-> NewSession]
    /\ rq = [r \in Reqs |-> NoRequest]
    /\ generated = {}
    /\ dbFaulty = FALSE
    /\ app = Serving

\* a batch of one payment has no rate limit delay
NextTwo ==
    \/ \E p \in PollerIds :
          \/ run_poller(p)
          \/ handle_expired_payments(p)
          \/ mark_timeout(p)
          \/ get_pending_payments(p)
          \/ get_payment_details(p)
          \/ psp_response(p)
          \/ check_payment_status(p)
          \/ check_interval(p)
    \/ Tick

SpecTwo == InitTwo /\ [][NextTwo]_vars

\* C29: with two poller instances over the same store nothing keeps a payment
\* to one of them.  A poller calls the PSP for every payment of its batch,
\* whether or not the other instance has polled it; the commit of
\* check_payment_status stores the status mapped from the response whatever
\* status the row holds by then, a terminal one written by the other
\* instance included; and the commit of the expiry pass stores TIMEOUT on
\* every row it selected, whatever was committed to them since.
DuplicatePollersRace ==
    [][\A p \in pollers :
          LET s == poller[p] IN
          /\ (s.pc = "check" /\ ~s.expired /\ poller'[p].pc # "check") =>
                /\ poller'[p].pc = "wait"
                /\ s.payments[s.i] \in poller'[p].called
          /\ (/\ s.pc = "apply" /\ poller'[p].pc # "apply"
              /\ s.resp.kind = "SUCCESS" /\ status_updated(s.resp.status)) =>
                LET r == s.payments[s.i] IN
                /\ db'[r].status = StatusFor(s.resp.status)
                /\ s.resp.status = "COMPLETED" => db'[r].txn_id = s.resp.paymentId
          /\ (s.pc = "mark" /\ poller'[p].pc # "mark") =>
                \A r \in s.expired_payments : db'[r].status = TIMEOUT]_vars

\* C29 witness: one instance has just committed its expiry pass over the
\* only payment of the store, which made it TIMEOUT, and the payment is
\* COMPLETED: the other instance, which had selected and polled it while it
\* was PENDING, has committed the PSP's answer over the terminal status
TimeoutOverwrittenByStaleCompleted ==
    \E r \in DOMAIN db, p, q \in pollers :
       /\ p # q
       /\ Len(db) = 1
       /\ poller[p].pc = "select" /\ ~poller[p].txn
       /\ db[r].status = COMPLETED /\ db[r].txn_id # Null
       /\ r \in poller[q].called /\ poller[q].pc = "finish"

\* C30: a failed call is not repeated in place.  Within a cycle the poller
\* calls getPaymentDetails only for a row it has not called yet in that
\* cycle; a call gets one answer, a result or an exception, and whatever the
\* answer the for loop then moves to the next row or ends, never back to
\* the call; and createQR is sent once per initiation, its answer, success
\* or failure, taking the request on to the insert or to its error response.
RetryIsNextCycle ==
    [][/\ \A p \in pollers :
            LET s == poller[p] IN
            /\ (s.pc # "wait" /\ poller'[p].pc = "wait") =>
                  /\ s.pc = "check"
                  /\ s.payments[s.i] \notin s.called
                  /\ poller'[p].called = s.called \cup {s.payments[s.i]}
            /\ (s.pc = "wait" /\ poller'[p].pc # "wait") =>
                  /\ poller'[p].pc = "apply"
                  /\ poller'[p].resp \in Responses
                  /\ poller'[p].i = s.i
                  /\ poller'[p].called = s.called
            /\ (s.pc = "apply" /\ poller'[p].pc # "apply") =>
                  /\ \/ poller'[p].pc = "finish"
                     \/ poller'[p].pc = "delay" /\ poller'[p].i = s.i + 1
                  /\ poller'[p].called = s.called
       /\ \A r \in Reqs :
            /\ (rq[r].pc # "qr_wait" /\ rq'[r].pc = "qr_wait") => rq[r].pc = "qr"
            /\ (rq[r].pc = "qr_wait" /\ rq'[r].pc # "qr_wait") =>
                  /\ rq'[r].qr \in QrOutcomes
                  /\ rq'[r].pc = IF rq'[r].qr = "SUCCESS" THEN "create" ELSE "done"]_vars

\* C30 witness: a cycle has ended in which a PSP call raised, every payment
\* of the batch having been called once, and a createQR that raised has
\* answered its request with the error
FailedCallsNotRepeated ==
    \E p \in pollers, r \in Reqs :
       /\ poller[p].pc = "finish"
       /\ poller[p].raised # {}
       /\ poller[p].called = Range(poller[p].payments)
       /\ rq[r].pc = "done" /\ rq[r].qr = "raise"

(* ------------------------ a PSP call that hangs ----------------------- *)

\* PayPayService.get_payment_details, line 134: the SDK call is given no
\* timeout and check_payment_status awaits it without one (line 71), so
\* when the PSP accepts the request and never answers the call does not
\* return; it is synchronous, and the poller's thread stays in it
hang(p) ==
    /\ p \in pollers
    /\ poller[p].pc = "wait"
    /\ poller' = [poller EXCEPT ![p] = [@ EXCEPT !.pc = "hung"]]
    /\ UNCHANGED <<now, db, pollers, rq, generated, dbFaulty, app>>

NextHang == NextLoop \/ \E p \in PollerIds : hang(p)

\* the poller loop with every step it can take taken, and a PSP that may
\* leave a call unanswered
SpecHang == InitLoop /\ [][NextHang]_vars /\ WF_vars(NextHang)

\* C31 as stated: every getPaymentDetails call ends, so the batch it belongs
\* to is completed.
HungCallEnds ==
    \A p \in {1} : (poller[p].pc = "wait") ~> (poller[p].pc = "finish")

(* -------------------- PSP calls abandoned in flight ------------------- *)

\* the process ends while createQR is in flight (init_payment, line 204):
\* the handler has added nothing to its session, and the caller gets no
\* response
abandon(r) ==
    /\ rq[r].pc = "qr_wait"
    /\ rq' = [rq EXCEPT ![r] = Done(@, "abandoned")]
    /\ UNCHANGED <<now, db, poller, pollers, generated, dbFaulty, app>>

\* the poller beside an initiation, either of which can be cut off
NextAbandon ==
    \/ NextProcess
    \/ \E p \in PollerIds : crash(p)
    \/ \E r \in {1} : abandon(r)

SpecAbandon == InitProcess /\ [][NextAbandon]_vars

\* C32: no step of the poller between the start of a cycle's PSP call and
\* its response changes the store, and a row the poller changes is either
\* one of its expiry pass, for which it calls nothing, or the row whose PSP
\* call has just returned a result; an initiation changes nothing until
\* createQR has returned SUCCESS, and the one row it then inserts is the
\* row of its request.  So a call cut off in flight (the poller killed, the
\* initiation abandoned) leaves the store as it was.
NoWriteBeforePspResponse ==
    [][/\ \A p \in pollers :
            LET s == poller[p] IN
            /\ (s.pc \in {"check", "wait"} /\ poller'[p] # s) => db' = db
            /\ \A i \in DOMAIN db :
                  (db'[i] # db[i] /\ poller'[p] # s) =>
                     \/ s.pc = "mark" /\ i \in s.expired_payments /\ i \notin s.called
                     \/ /\ s.pc = "apply" /\ i = s.payments[s.i]
                        /\ s.resp.kind = "SUCCESS" /\ i \in s.called
       /\ \A r \in Reqs :
            (rq[r].pc \in {"idle", "exists", "qr", "qr_wait"} /\ rq'[r] # rq[r]) =>
                db' = db /\ r \notin Flushed'
       /\ Len(db') # Len(db) =>
            \E r \in Reqs :
               /\ rq[r].pc = "commit" /\ rq[r].qr = "SUCCESS"
               /\ db' = Append(db, db'[Len(db')])
               /\ db'[Len(db')].request_id = rq[r].request_id]_vars

\* C32 witness: an initiation was abandoned while createQR was in flight and
\* no row has its request_id, while the poller is in a PSP call for a
\* payment that nothing has written since it was created
AbandonedCallsLeftNoTrace ==
    \E r \in Reqs, p \in pollers :
       /\ rq[r].pc = "done" /\ rq[r].result = "abandoned"
       /\ get_by_request_id(db, rq[r].request_id) = {}
       /\ poller[p].pc = "wait"
       /\ \A i \in DOMAIN db :
             db[i].status = PENDING /\ db[i].updated_at = db[i].created_at

(* --------------------- two clocks for the timestamps ------------------ *)

\* created_at and the first updated_at are func.now() of the database
\* server (BaseModel, lines 13-21); the poller assigns updated_at from
\* datetime.now(UTC) of its own host (payment_poller.py 119, 169 and 185).
\* now is the poller's clock, and the server's is ahead of it by up to
\* MaxSkew: the store holds payments the server has just stamped.
SkewedStores ==
    UNION {[1 .. n -> {[Row(1, PENDING, 2 * TickSeconds, TickSeconds + k, 100000, 1,
                            "paypay://a") EXCEPT !.request_id = i] :
                          k \in 0 .. MaxSkew, i \in 1 .. MaxRows}] :
           n \in 1 .. MaxRows}

InitClock ==
    /\ now = TickSeconds
    /\ db \in {s \in SkewedStores : \A i \in DOMAIN s : s[i].request_id = i}
    /\ pollers = {1}
    /\ poller = [p \in PollerIds |-> NewSession]
    /\ rq = [r \in Reqs |-> NoRequest]
    /\ generated = {}
    /\ dbFaulty = FALSE
    /\ app = Serving

SpecClock == InitClock /\ [][Next]_vars

\* C33 as stated: no step makes a payment's updated_at earlier than it was,
\* or earlier than its created_at.
UpdatedAtMonotonic ==
    [][\A i \in DOMAIN db :
          /\ db'[i].updated_at >= db[i].updated_at
          /\ db'[i].updated_at >= db'[i].created_at]_vars

(* ------------------ a paid payment among unpaid ones ------------------ *)

\* payment 1, the oldest, and up to MaxActive - 1 payments created after
\* it, all PENDING and all expiring at 2 * TickSeconds
PaidStores ==
    {[i \in 1 .. n |-> Row(i, PENDING, 2 * TickSeconds, i, 100000, 1, "paypay://a")] :
        n \in 1 .. MaxActive}

InitPaid ==
    /\ now = TickSeconds
    /\ db \in PaidStores
    /\ pollers = {1}
    /\ poller = [p \in PollerIds |-> NewSession]
    /\ rq = [r \in Reqs |-> NoRequest]
    /\ generated = {}
    /\ dbFaulty = FALSE
    /\ app = Serving

\* the PSP has payment 1 as COMPLETED, from before the poller starts, and
\* the others as not paid yet; get_payment_details returns what it has
paid_psp_response(p) ==
    /\ p \in pollers
    /\ poller[p].pc = "wait"
    /\ \E r \in Responses :
         /\ r.kind = "SUCCESS"
         /\ IF poller[p].payments[poller[p].i] = 1
            THEN r.status = "COMPLETED" /\ r.paymentId # Null
            ELSE r.status \in {"CREATED", "AUTHORIZED"} /\ r.paymentId = Null
         /\ poller' = [poller EXCEPT ![p] = [@ EXCEPT !.resp = r, !.pc = "apply"]]
    /\ UNCHANGED <<now, db, pollers, rq, generated, dbFaulty, app>>

PaidLoop ==
    \E p \in PollerIds :
       \/ run_poller(p)
       \/ handle_expired_payments(p)
       \/ mark_timeout(p)
       \/ get_pending_payments(p)
       \/ rate_limit_delay(p)
       \/ get_payment_details(p)
       \/ paid_psp_response(p)
       \/ check_payment_status(p)
       \/ check_interval(p)

\* a cycle over a batch takes seconds and an expiry minutes: the clock is
\* moved only when a cycle has ended, so every payment is PENDING and not
\* due through at least one whole cycle
TickAfterCycle == (\A p \in pollers : poller[p].pc = "finish") /\ Tick

NextPaid == PaidLoop \/ TickAfterCycle

\* the poller keeps taking steps and the PSP keeps answering, while time
\* passes
SpecPaid ==
    InitPaid /\ [][NextPaid]_vars /\ WF_vars(PaidLoop) /\ SF_vars(TickAfterCycle)

\* C34 as stated: the payment the PSP reports COMPLETED before its
\* expires_at is never recorded as TIMEOUT and is eventually COMPLETED,
\* however many payments are pending beside it.
PaidPaymentCompletes ==
    /\ [](db[1].status # TIMEOUT)
    /\ <>(db[1].status = COMPLETED)

(* ------------------------ the PSP merchant identity ------------------- *)

\* settings.PAYPAY_MERCHANT_ID, the system default
PAYPAY_MERCHANT_ID == "merchant-default"

\* Store.payment_config.config of the store each terminal belongs to: the
\* store of terminal 1 has a PayPay merchant id of its own
store_payment_config ==
    [t \in TerminalRows |-> [PAYPAY |-> [paypay_merchant_id |-> "merchant-store"]]]

\* PayPayService.__init__, line 32: merchant_id or settings.PAYPAY_MERCHANT_ID
merchant_id(given) == IF given # Null THEN given ELSE PAYPAY_MERCHANT_ID

\* init_payment, lines 189-202: PayPayService(merchant_id=paypay_merchant_id)
\* with the id of the store's payment config, None when it has none
init_payment_merchant_id(terminal_id) ==
    merchant_id(store_payment_config[terminal_id].PAYPAY.paypay_merchant_id)

\* PaymentPoller.__init__, line 26: PayPayService() with no argument
poller_merchant_id == merchant_id(Null)

\* C35 as stated: a getPaymentDetails call of the poller for a payment is
\* made under the merchant id under which init_payment created the
\* payment's QR code.
PollerUsesInitMerchant ==
    [][\A p \in pollers :
          (poller[p].pc = "check" /\ poller'[p].pc = "wait") =>
             poller_merchant_id =
                init_payment_merchant_id(db[poller[p].payments[poller[p].i]].terminal_id)]_vars

\* C36 as stated: when an initiation sends createQR, no row that another
\* initiation has committed has its request_id.
CreateQrOnlyForNewKey ==
    [][\A r \in Reqs :
          (rq[r].pc = "qr" /\ rq'[r].qr # "none") =>
             get_by_request_id(db, rq[r].request_id) \subseteq generated]_vars

\* C37 as stated: a PENDING payment whose expires_at is not after now is
\* moved by the poller to TIMEOUT and to nothing else, also when it was
\* selected as active before it expired and the PSP answers after.
OnlyTimeoutAfterExpiry ==
    [][\A p \in pollers : \A r \in DOMAIN db :
          (/\ poller'[p] # poller[p]
           /\ db[r].status = PENDING /\ db[r].expires_at <= now
           /\ db'[r].status # PENDING) => db'[r].status = TIMEOUT]_vars

\* PayPayService.generate_qr_code, line 51: amount_minor = int(amount), the
\* amount of the createQR request
amount_minor(amount) == IntAmount(amount)

\* C38 as stated: the row of an accepted initiation holds the amount that
\* its createQR request carried.
QrAmountEqualsStoredAmount ==
    \A r \in Reqs :
       rq[r].result = "Created" =>
          \A i \in get_by_request_id(db, rq[r].request_id) :
             db[i].amount = amount_minor(rq[r].amount)

(* ------------------- the status lookup beside the poller -------------- *)

NextLookup ==
    \/ PollerNext
    \/ \E r \in {1} : get_payment_status(r) \/ respond(r)

SpecLookup == InitUpdate /\ [][NextLookup]_vars

\* C39 as stated: the payload of a status lookup has a qr_string only for a
\* PENDING payment and a txn_id only for a COMPLETED one.
LookupHidesQrOfTerminal ==
    \A r \in Reqs :
       rq[r].result = "Status" =>
          /\ rq[r].response.status # PENDING => rq[r].response.qr_string = Null
          /\ rq[r].response.status # COMPLETED => rq[r].response.txn_id = Null

\* C40 as stated: when the application serves, the poller loop is running.
ServingImpliesPolling ==
    app.pc = "serving" => pollers # {}

====
